---- MODULE Spec2Model ----
(***************************************************************************)
(* FeastFleet: the JSON-file Record Store, authentication, cart, checkout  *)
(* and the order lifecycle, as driven by the Streamlit pages.              *)
(*                                                                         *)
(* Every client session owns a private in-memory copy of the document      *)
(* (st.session_state.data_store), loaded once from the data file; every    *)
(* store write rewrites the whole file.  Python dicts are shared by        *)
(* reference, so st.session_state.user, selected_order and the entries of  *)
(* active_orders are the very objects held in the store: they are modelled *)
(* as positions in the store's lists (0 is None).                          *)
(***************************************************************************)
EXTENDS Integers, Sequences, FiniteSets, TLC

\* ---------------------------------------------------------------- bounds
MaxClock == 2
MaxOrders == 2
MaxOrdersNarrow == 1
MaxQty == 2
MaxDist10 == 60
MaxProgressNarrow == 12

\* ------------------------------------------------------- input alphabets
Sessions == {"s1", "s2"}
Emails == {"a@x", "b@x"}
Passwords == {"pw1", "pw2"}
RegPasswords == {"pw1"}
RegNames == {"Ann"}
UserTypes == {"customer", "vendor"}
Names == {"Ann", "Bob"}
Addresses == {"", "12 Main St"}
RestNames == {"Dosa Hut", "Wok Inn"}
Prices == {50}
IOOk == {"ok"}
IOFailures == {"open_fails", "dump_fails"}
IOOutcomes == IOOk \cup IOFailures
SmsOutcomes == {TRUE, FALSE}
Speeds == {20, 25, 30}

\* ------------------------------------------------------------ data model
VARIABLES disk, now, loaded, data_store, user, authenticated, user_type,
          cart, selected_restaurant, active_orders, selected_order,
          simulate_status, delivery_progress, sleeping, out

vars == <<disk, now, loaded, data_store, user, authenticated, user_type,
          cart, selected_restaurant, active_orders, selected_order,
          simulate_status, delivery_progress, sleeping, out>>

sessionVars == <<loaded, user, authenticated, user_type, cart,
                 selected_restaurant, active_orders, selected_order,
                 simulate_status, delivery_progress>>

EmptyDoc == [users |-> <<>>, restaurants |-> <<>>, menu_items |-> <<>>, orders |-> <<>>]

NoFile == [state |-> "absent", doc |-> EmptyDoc]

File(doc) == [state |-> "ok", doc |-> doc]

\* a file that open(..., 'w') truncated and json.dump did not finish: json.load
\* raises on it
CorruptFile == [state |-> "corrupt", doc |-> EmptyDoc]

NoOut == [s |-> "", kind |-> "none", order |-> <<>>, sms |-> <<>>]

Out(s, kind, order, sms) == [s |-> s, kind |-> kind, order |-> order, sms |-> sms]

\* f"{prefix}{n}" and str(n): the decimal rendering keeps prefix and number apart
IdStr(prefix, n) == <<prefix, n>>

Upd(f, s, v) == [f EXCEPT ![s] = v]

\* the first (least) of a set of list positions, 0 when the set is empty: what a
\* "for x in list: if ...: return x" scan that ends in "return None" finds
First(S) == IF S = {} THEN 0 ELSE CHOOSE i \in S : \A j \in S : i <= j

\* ------------------------------------------------------------ data_store
_load_data_from_file_unguarded(d, io) == IF d.state = "absent" THEN EmptyDoc ELSE d.doc

\* io is what reading an existing file meets: "ok", or "open_fails" (open
\* raises); a corrupt file makes json.load raise.  Either exception is caught
\* and answered with the empty document, as is a file that does not exist.
_load_data_from_file(d, io) == IF d.state = "ok" /\ io = "ok" THEN d.doc ELSE EmptyDoc

_save_data_to_file_keeping_orders(d, doc, io) ==
  IF io = "ok"
    THEN File([doc EXCEPT !.orders = IF Len(d.doc.orders) > Len(@) THEN d.doc.orders ELSE @])
  ELSE IF io = "open_fails" THEN d
  ELSE CorruptFile

\* io is what the write meets: "open_fails" (open raises, the file is as it
\* was), "dump_fails" (json.dump raises after open truncated the file); both
\* exceptions are caught inside, shown with st.error, and nothing is returned
_save_data_to_file(d, doc, io) ==
  IF io = "ok" THEN File(doc)
  ELSE IF io = "open_fails" THEN d
  ELSE CorruptFile

get_user_by_email(doc, email) == First({k \in 1..Len(doc.users) : doc.users[k].email = email})

get_user_by_id(doc, id) == First({k \in 1..Len(doc.users) : doc.users[k].id = id})

add_user(doc, u) == [doc EXCEPT !.users = Append(@, u)]

update_user_found(doc, u) == First({k \in 1..Len(doc.users) : doc.users[k].id = u.id}) # 0

update_user_upsert(doc, u) ==
  LET i == First({k \in 1..Len(doc.users) : doc.users[k].id = u.id})
  IN IF i = 0 THEN [doc EXCEPT !.users = Append(@, u)] ELSE [doc EXCEPT !.users[i] = u]

update_user(doc, u) ==
  LET i == First({k \in 1..Len(doc.users) : doc.users[k].id = u.id})
  IN IF i = 0 THEN doc ELSE [doc EXCEPT !.users[i] = u]

get_restaurant_by_id(doc, id) == First({k \in 1..Len(doc.restaurants) : doc.restaurants[k].id = id})

get_menu_items_by_restaurant(doc, rid) ==
  {i \in 1..Len(doc.menu_items) : doc.menu_items[i].restaurant_id = rid}

add_menu_item(doc, item) ==
  [doc EXCEPT !.menu_items = Append(@, [item EXCEPT !.id = IdStr("item", Len(doc.menu_items) + 1)])]

add_restaurant(doc, r) ==
  [doc EXCEPT !.restaurants = Append(@, [r EXCEPT !.id = IdStr("rest", Len(doc.restaurants) + 1)])]

update_restaurant(doc, r) ==
  LET i == First({k \in 1..Len(doc.restaurants) : doc.restaurants[k].id = r.id})
  IN IF i = 0 THEN doc ELSE [doc EXCEPT !.restaurants[i] = r]

update_restaurant_found(doc, r) ==
  First({k \in 1..Len(doc.restaurants) : doc.restaurants[k].id = r.id}) # 0

update_menu_item(doc, item) ==
  LET i == First({k \in 1..Len(doc.menu_items) : doc.menu_items[k].id = item.id})
  IN IF i = 0 THEN doc ELSE [doc EXCEPT !.menu_items[i] = item]

update_menu_item_found(doc, item) ==
  First({k \in 1..Len(doc.menu_items) : doc.menu_items[k].id = item.id}) # 0

get_orders_by_user(doc, uid) == {i \in 1..Len(doc.orders) : doc.orders[i].user_id = uid}

get_orders_by_restaurant(doc, rid) == {i \in 1..Len(doc.orders) : doc.orders[i].restaurant_id = rid}

\* the status add_order gives an order that arrives without one
DefaultStatus == "pending"

\* add_order: order.status is <<>> when the caller supplied no "status" key
add_order(doc, order) ==
  LET o1 == [order EXCEPT !.id = IdStr("order", Len(doc.orders) + 1),
                          !.status = IF order.status = <<>> THEN DefaultStatus ELSE order.status[1]]
  IN [doc EXCEPT !.orders = Append(@, o1)]

update_order_first(doc, o) ==
  LET i == First({k \in 1..Len(doc.orders) : doc.orders[k].id = o.id})
  IN IF i = 0 THEN doc ELSE [doc EXCEPT !.orders[1] = o]

update_order(doc, o) ==
  LET i == First({k \in 1..Len(doc.orders) : doc.orders[k].id = o.id})
  IN IF i = 0 THEN doc ELSE [doc EXCEPT !.orders[i] = o]

update_order_found(doc, o) == First({k \in 1..Len(doc.orders) : doc.orders[k].id = o.id}) # 0

\* what the store calls hand back to their caller when the write met io
add_user_returns(doc, u, io) == TRUE

add_order_returns(doc, order, io) == add_order(doc, order).orders[Len(doc.orders) + 1]

update_user_returns(doc, u, io) == update_user_found(doc, u)

update_order_returns(doc, o, io) == update_order_found(doc, o)

\* order["status"] = st on the order object at position i
SetStatus(doc, i, st) == [doc EXCEPT !.orders[i].status = st]

\* -------------------------------------------------------- authentication
hash_password(p) == <<"sha256", p>>

NewUser(name, email, password, utype, t) ==
  [id |-> IdStr("", t), name |-> name, email |-> email,
   password_hash |-> hash_password(password), user_type |-> utype,
   address |-> "", restaurant |-> <<>>]

login_user_any_type(doc, email, password, utype) ==
  LET i == get_user_by_email(doc, email)
  IN IF i # 0 /\ doc.users[i].password_hash = hash_password(password) THEN i ELSE 0

login_user(doc, email, password, utype) ==
  LET i == get_user_by_email(doc, email)
  IN IF i # 0 /\ doc.users[i].password_hash = hash_password(password)
               /\ doc.users[i].user_type = utype
       THEN i ELSE 0

check_authentication(s) == authenticated[s] /\ user[s] # 0

\* save_session_state after the session variables were set to (auth, u):
\* update_user(st.session_state.user) then one more _save_data_to_file
save_session_state(d, doc, auth, u, io) ==
  IF auth /\ u # 0 THEN _save_data_to_file(d, update_user(doc, doc.users[u]), io) ELSE d

\* ------------------------------------------------------------------ cart
CartAcceptsAny(c, rest) == TRUE

\* the check add_to_cart makes before it touches the cart
CartAccepts(c, rest) == c = <<>> \/ c[1].restaurant_id = rest.id

CartLine(item, rest) ==
  [id |-> item.id, price |-> item.price, quantity |-> 1,
   restaurant_id |-> rest.id, restaurant_name |-> rest.name]

add_to_cart_appending(c, item, rest) ==
  IF CartAccepts(c, rest) THEN Append(c, CartLine(item, rest)) ELSE c

add_to_cart(c, item, rest) ==
  IF CartAccepts(c, rest)
    THEN LET k == First({n \in 1..Len(c) : c[n].id = item.id})
         IN IF k # 0 THEN [c EXCEPT ![k].quantity = @ + 1]
                     ELSE Append(c, CartLine(item, rest))
    ELSE c

remove_from_cart(c, id) == SelectSeq(c, LAMBDA l : l.id # id)

RECURSIVE CartTotal(_)
CartTotal(c) == IF c = <<>> THEN 0 ELSE c[1].price * c[1].quantity + CartTotal(Tail(c))

\* ------------------------------------------------------------------- geo
\* Distances are counted in tenths of a kilometre (d10), speeds in km/h.  Up
\* to 100 km at these speeds the double arithmetic of the code gives the same
\* integer as the exact quotient, so int((d / v) * 60 + buffer) is
\* (d10 * 6) \div v + buffer.
calculate_eta_inclusive(d10, speed) ==
  (d10 * 6) \div speed + (IF d10 <= 50 THEN 10 ELSE 15)

calculate_eta(d10, speed) ==
  (d10 * 6) \div speed + (IF d10 < 50 THEN 10 ELSE 15)

\* Positions are latitudes on the meridian of the user's location, counted in
\* arcs of 1/300 km from it.  With dlon = 0 the haversine term a is
\* sin(dlat/2)**2 and 2 * asin(sqrt(a)) * r is the arc |dlat|.
calculate_distance_signed(lat1, lon1, lat2, lon2) ==
  LET dlat == lat2 - lat1
  IN dlat

calculate_distance(lat1, lon1, lat2, lon2) ==
  LET dlat == lat2 - lat1
  IN IF dlat < 0 THEN -dlat ELSE dlat

\* the default location, the origin of the positions
get_current_location == [lat |-> 0, lng |-> 0]

\* a radius or distance of n km in arcs of 1/300 km
Km(n) == n * 300

\* round(distance, 2) in hundredths of a km: a third rounds down, two thirds up
round2(d) == (d + 1) \div 3

\* round(distance, 1), in hundredths of a km as well, for distances that are no
\* odd multiple of 0.05 km
round1(d) == ((d + 15) \div 30) * 10

\* one step of sorted(nearby, key=distance): x goes behind the entries with a
\* smaller key and before those with an equal one, as a stable sort leaves it
sorted_insert(x, seq) ==
  LET k == Cardinality({i \in 1..Len(seq) : seq[i].distance[1] < x.distance[1]})
  IN SubSeq(seq, 1, k) \o <<x>> \o SubSeq(seq, k + 1, Len(seq))

RECURSIVE sorted_by_distance(_)
sorted_by_distance(seq) ==
  IF seq = <<>> THEN <<>> ELSE sorted_insert(Head(seq), sorted_by_distance(Tail(seq)))

\* get_nearby_restaurants: the copies of the restaurants within radius_km, each
\* with "distance" set to the rounded distance, sorted on that key
get_nearby_restaurants(user_location, restaurants, radius_km) ==
  LET Dist(r) == calculate_distance(user_location.lat, user_location.lng,
                                    r.location.lat, r.location.lng)
      nearby == SelectSeq(restaurants, LAMBDA r : Dist(r) <= Km(radius_km))
      annotated == [i \in 1..Len(nearby) |->
                      [nearby[i] EXCEPT !.distance = <<round2(Dist(nearby[i]))>>]]
  IN sorted_by_distance(annotated)

\* --------------------------------------------------------- order lifecycle
ActiveStatuses == {"confirmed", "preparing", "out_for_delivery"}

TerminalStatuses == {"delivered", "cancelled"}

AutoAdvanceSkipping(st) ==
  IF st = "confirmed" THEN "out_for_delivery"
  ELSE IF st = "preparing" THEN "out_for_delivery"
  ELSE st

\* display_order_tracking's demo progression of the status it is shown
AutoAdvance(st) ==
  IF st = "confirmed" THEN "preparing"
  ELSE IF st = "preparing" THEN "out_for_delivery"
  ELSE st

AutoAdvanceFiresAgain(rnd, simulated, st) ==
  rnd /\ st \in {"confirmed", "preparing"}

\* the condition of the demo progression: rnd is random.random() < 0.1,
\* simulated is "simulate_status" in st.session_state
AutoAdvanceFires(rnd, simulated, st) ==
  rnd /\ ~simulated /\ st \in {"confirmed", "preparing"}

\* the status list a vendor button is rendered under, and the status it sets
ButtonFrom(kind) ==
  IF kind \in {"accept", "reject"} THEN "confirmed"
  ELSE IF kind = "ready" THEN "preparing"
  ELSE "out_for_delivery"

ButtonTo(kind) ==
  IF kind = "accept" THEN "preparing"
  ELSE IF kind = "reject" THEN "cancelled"
  ELSE IF kind = "ready" THEN "out_for_delivery"
  ELSE "delivered"

\* delivery_progress in hundredths: the tracking page sets 0.1 before its first
\* use and on "Track", adds 0.02 per refresh and clamps at 0.95
InitialProgress == 10

next_delivery_progress(p) == IF p + 2 > 95 THEN 95 ELSE p + 2

\* ------------------------------------------------------------------ Init
Init ==
  /\ disk = NoFile
  /\ now = 0
  /\ loaded = [s \in Sessions |-> FALSE]
  /\ data_store = [s \in Sessions |-> EmptyDoc]
  /\ user = [s \in Sessions |-> 0]
  /\ authenticated = [s \in Sessions |-> FALSE]
  /\ user_type = [s \in Sessions |-> "none"]
  /\ cart = [s \in Sessions |-> <<>>]
  /\ selected_restaurant = [s \in Sessions |-> <<>>]
  /\ active_orders = [s \in Sessions |-> <<>>]
  /\ selected_order = [s \in Sessions |-> 0]
  /\ simulate_status = [s \in Sessions |-> FALSE]
  /\ delivery_progress = [s \in Sessions |-> InitialProgress]
  /\ sleeping = [s \in Sessions |-> FALSE]
  /\ out = NoOut

\* --------------------------------------------------------------- actions
\* first script run of a client session: session defaults and initialize_data
StartSession(s) ==
  /\ ~loaded[s]
  /\ loaded' = Upd(loaded, s, TRUE)
  /\ data_store' = Upd(data_store, s, _load_data_from_file(disk, "ok"))
  /\ out' = IF disk.state = "corrupt" THEN Out(s, "load_error", <<>>, <<>>) ELSE NoOut
  /\ UNCHANGED <<disk, now, user, authenticated, user_type, cart, selected_restaurant,
                 active_orders, selected_order, simulate_status, delivery_progress, sleeping>>

\* first script run of a client session while the data file exists and cannot
\* be opened for reading
StartSessionUnreadable(s) ==
  /\ ~loaded[s]
  /\ disk.state # "absent"
  /\ loaded' = Upd(loaded, s, TRUE)
  /\ data_store' = Upd(data_store, s, _load_data_from_file(disk, "open_fails"))
  /\ out' = Out(s, "load_error", <<>>, <<>>)
  /\ UNCHANGED <<disk, now, user, authenticated, user_type, cart, selected_restaurant,
                 active_orders, selected_order, simulate_status, delivery_progress, sleeping>>

\* time.sleep(1) after a successful login or registration returns: at least one
\* second has passed since the handler read the clock (the clock is capped at
\* MaxClock, where no registration reads it any more)
Wake(s) ==
  /\ sleeping[s]
  /\ sleeping' = Upd(sleeping, s, FALSE)
  /\ now' = IF now < MaxClock THEN now + 1 ELSE now
  /\ UNCHANGED <<disk, loaded, data_store, user, authenticated, user_type, cart,
                 selected_restaurant, active_orders, selected_order, simulate_status,
                 delivery_progress, out>>

Ready(s) == loaded[s] /\ ~sleeping[s]

\* Register form submit on the auth page
Register(s, name, email, password, confirm, utype, io) ==
  /\ Ready(s) /\ ~check_authentication(s)
  /\ now < MaxClock
  /\ IF email = "" THEN
       /\ out' = Out(s, "fill_fields", <<>>, <<>>)
       /\ UNCHANGED <<disk, data_store, user, authenticated, user_type, sleeping>>
     ELSE IF password # confirm THEN
       /\ out' = Out(s, "pw_mismatch", <<>>, <<>>)
       /\ UNCHANGED <<disk, data_store, user, authenticated, user_type, sleeping>>
     ELSE IF get_user_by_email(data_store[s], email) # 0 THEN
       /\ out' = Out(s, "email_exists", <<>>, <<>>)
       /\ UNCHANGED <<disk, data_store, user, authenticated, user_type, sleeping>>
     ELSE
       LET doc1 == add_user(data_store[s], NewUser(name, email, password, utype, now))
           d1 == _save_data_to_file(disk, doc1, io)
           u == Len(doc1.users)
       IN /\ data_store' = Upd(data_store, s, update_user(doc1, doc1.users[u]))
          /\ disk' = save_session_state(d1, doc1, TRUE, u, io)
          /\ user' = Upd(user, s, u)
          /\ authenticated' = Upd(authenticated, s, TRUE)
          /\ user_type' = Upd(user_type, s, utype)
          /\ sleeping' = Upd(sleeping, s, TRUE)
          /\ out' = Out(s, "registered", <<>>, <<>>)
  /\ UNCHANGED <<now, loaded, cart, selected_restaurant, active_orders, selected_order,
                 simulate_status, delivery_progress>>

\* Login form submit on the auth page
Login(s, email, password, utype, io) ==
  /\ Ready(s) /\ ~check_authentication(s)
  /\ LET u == login_user(data_store[s], email, password, utype)
     IN IF email = "" THEN
          /\ out' = Out(s, "enter_both", <<>>, <<>>)
          /\ UNCHANGED <<disk, data_store, user, authenticated, user_type, sleeping>>
        ELSE IF u = 0 THEN
          /\ out' = Out(s, "invalid_login", <<>>, <<>>)
          /\ UNCHANGED <<disk, data_store, user, authenticated, user_type, sleeping>>
        ELSE
          /\ data_store' = Upd(data_store, s, update_user(data_store[s], data_store[s].users[u]))
          /\ disk' = save_session_state(disk, data_store[s], TRUE, u, io)
          /\ user' = Upd(user, s, u)
          /\ authenticated' = Upd(authenticated, s, TRUE)
          /\ user_type' = Upd(user_type, s, utype)
          /\ sleeping' = Upd(sleeping, s, TRUE)
          /\ out' = Out(s, "welcome", <<>>, <<>>)
  /\ UNCHANGED <<now, loaded, cart, selected_restaurant, active_orders, selected_order,
                 simulate_status, delivery_progress>>

LogoutKeepingType(s, io) ==
  /\ Ready(s) /\ check_authentication(s)
  /\ user' = Upd(user, s, 0)
  /\ authenticated' = Upd(authenticated, s, FALSE)
  /\ disk' = save_session_state(disk, data_store[s], FALSE, 0, io)
  /\ out' = NoOut
  /\ UNCHANGED <<now, loaded, data_store, user_type, cart, selected_restaurant, active_orders,
                 selected_order, simulate_status, delivery_progress, sleeping>>

\* sidebar Logout button: the session variables are cleared, save_session_state
\* then finds nobody logged in and writes nothing
Logout(s, io) ==
  /\ Ready(s) /\ check_authentication(s)
  /\ user' = Upd(user, s, 0)
  /\ authenticated' = Upd(authenticated, s, FALSE)
  /\ user_type' = Upd(user_type, s, "none")
  /\ disk' = save_session_state(disk, data_store[s], FALSE, 0, io)
  /\ out' = NoOut
  /\ UNCHANGED <<now, loaded, data_store, cart, selected_restaurant, active_orders,
                 selected_order, simulate_status, delivery_progress, sleeping>>

CurrentUser(s) == data_store[s].users[user[s]]

\* pages/2_Restaurants.py runs its customer branch for every user type but "vendor"
CustomerPage(s) == Ready(s) /\ check_authentication(s) /\ user_type[s] # "vendor"

\* the restaurant list of pages/2_Restaurants.py: the restaurants within 10 km
NearbyList(s) == get_nearby_restaurants(get_current_location, data_store[s].restaurants, 10)

\* "View Menu" on entry r of the restaurant list, which is shown while no
\* restaurant is selected
ViewMenu(s, r) ==
  /\ CustomerPage(s)
  /\ selected_restaurant[s] = <<>>
  /\ r \in 1..Len(NearbyList(s))
  /\ selected_restaurant' = Upd(selected_restaurant, s, <<NearbyList(s)[r]>>)
  /\ out' = NoOut
  /\ UNCHANGED <<disk, now, loaded, data_store, user, authenticated, user_type, cart,
                 active_orders, selected_order, simulate_status, delivery_progress, sleeping>>

\* the restaurants show_customer_home features: the three best rated, which
\* for equally rated restaurants are the first three stored
featured_restaurants(doc) ==
  {i \in 1..Len(doc.restaurants) : i <= 3}

\* one run of the customer home page without a button pressed: every featured
\* restaurant that has no "distance" yet is given one, on the stored record
ShowCustomerHome(s) ==
  /\ Ready(s) /\ check_authentication(s) /\ user_type[s] = "customer"
  /\ LET doc == data_store[s]
         loc == get_current_location
         WithDistance(r) ==
           IF r.distance = <<>>
             THEN [r EXCEPT !.distance =
                     <<round1(calculate_distance(loc.lat, loc.lng, r.location.lat, r.location.lng))>>]
             ELSE r
     IN data_store' = Upd(data_store, s,
          [doc EXCEPT !.restaurants =
             [i \in 1..Len(doc.restaurants) |->
                IF i \in featured_restaurants(doc) THEN WithDistance(doc.restaurants[i])
                ELSE doc.restaurants[i]]])
  /\ out' = Out(s, "customer_home", <<>>, <<>>)
  /\ UNCHANGED <<disk, now, loaded, user, authenticated, user_type, cart, selected_restaurant,
                 active_orders, selected_order, simulate_status, delivery_progress, sleeping>>

\* "Order Now" on featured restaurant r of the customer home page, as shown by
\* the run that rendered it
OrderNow(s, r) ==
  /\ Ready(s) /\ check_authentication(s) /\ user_type[s] = "customer"
  /\ r \in featured_restaurants(data_store[s])
  /\ data_store[s].restaurants[r].distance # <<>>
  /\ selected_restaurant' = Upd(selected_restaurant, s, <<data_store[s].restaurants[r]>>)
  /\ out' = NoOut
  /\ UNCHANGED <<disk, now, loaded, data_store, user, authenticated, user_type, cart,
                 active_orders, selected_order, simulate_status, delivery_progress, sleeping>>

\* one run of pages/2_Restaurants.py for a customer without a button pressed:
\* the restaurant list, or the details, menu and cart of the selected restaurant
ShowRestaurants(s) ==
  /\ CustomerPage(s)
  /\ out' = IF selected_restaurant[s] = <<>>
              THEN Out(s, "restaurant_list", <<NearbyList(s)>>, <<>>)
              ELSE Out(s, "restaurant_details", selected_restaurant[s], <<>>)
  /\ UNCHANGED <<disk, now, loaded, data_store, user, authenticated, user_type, cart,
                 selected_restaurant, active_orders, selected_order, simulate_status,
                 delivery_progress, sleeping>>

\* "Back to Restaurant List"
BackToList(s) ==
  /\ CustomerPage(s)
  /\ selected_restaurant[s] # <<>>
  /\ selected_restaurant' = Upd(selected_restaurant, s, <<>>)
  /\ out' = NoOut
  /\ UNCHANGED <<disk, now, loaded, data_store, user, authenticated, user_type, cart,
                 active_orders, selected_order, simulate_status, delivery_progress, sleeping>>

\* "Add to Cart" on menu item m of the selected restaurant
AddToCart(s, m) ==
  /\ CustomerPage(s)
  /\ selected_restaurant[s] # <<>>
  /\ m \in get_menu_items_by_restaurant(data_store[s], selected_restaurant[s][1].id)
  /\ LET item == data_store[s].menu_items[m]
         rest == selected_restaurant[s][1]
     IN /\ \A l \in 1..Len(cart[s]) : cart[s][l].id = item.id => cart[s][l].quantity < MaxQty
        /\ cart' = Upd(cart, s, add_to_cart(cart[s], item, rest))
        /\ out' = IF CartAccepts(cart[s], rest)
                    THEN Out(s, "added_to_cart", <<item.id>>, <<>>)
                    ELSE Out(s, "one_restaurant_only", <<>>, <<>>)
  /\ UNCHANGED <<disk, now, loaded, data_store, user, authenticated, user_type,
                 selected_restaurant, active_orders, selected_order, simulate_status,
                 delivery_progress, sleeping>>

\* "Remove" on cart line l
RemoveFromCart(s, l) ==
  /\ CustomerPage(s)
  /\ selected_restaurant[s] # <<>>
  /\ l \in 1..Len(cart[s])
  /\ cart' = Upd(cart, s, remove_from_cart(cart[s], cart[s][l].id))
  /\ out' = NoOut
  /\ UNCHANGED <<disk, now, loaded, data_store, user, authenticated, user_type,
                 selected_restaurant, active_orders, selected_order, simulate_status,
                 delivery_progress, sleeping>>

\* the order dict the Place Order handler builds (it carries no id yet)
CheckoutOrder(s, address) ==
  [id |-> <<>>, user_id |-> CurrentUser(s).id,
   restaurant_id |-> cart[s][1].restaurant_id,
   restaurant_name |-> selected_restaurant[s][1].name,
   item_details |-> cart[s], total_amount |-> CartTotal(cart[s]),
   delivery_address |-> address, status |-> <<"confirmed">>]

AddressGivenAlways(address) == TRUE

\* "if not address" of the Place Order handler
AddressGiven(address) == address # ""

\* "Place Order" in show_cart
PlaceOrder(s, address, sms, io) ==
  /\ CustomerPage(s)
  /\ selected_restaurant[s] # <<>>
  /\ cart[s] # <<>>
  /\ Len(data_store[s].orders) < MaxOrders
  /\ IF ~AddressGiven(address) THEN
       /\ out' = Out(s, "enter_address", <<>>, <<>>)
       /\ UNCHANGED <<disk, data_store, cart, active_orders>>
     ELSE
       LET order == CheckoutOrder(s, address)
           doc1 == add_order(data_store[s], order)
           n == Len(doc1.orders)
       IN /\ data_store' = Upd(data_store, s, doc1)
          /\ disk' = _save_data_to_file(disk, doc1, io)
          /\ active_orders' = Upd(active_orders, s, Append(active_orders[s], n))
          /\ cart' = Upd(cart, s, <<>>)
          /\ out' = Out(s, "order_placed", <<doc1.orders[n].id>>, <<[status |-> "confirmed", ok |-> sms]>>)
  /\ UNCHANGED <<now, loaded, user, authenticated, user_type, selected_restaurant,
                 selected_order, simulate_status, delivery_progress, sleeping>>

\* add_order called on the session's store with an order that carries no status
AddOrderCall(s, u, r, io) ==
  /\ Ready(s)
  /\ Len(data_store[s].orders) < MaxOrders
  /\ u \in 1..Len(data_store[s].users)
  /\ r \in 1..Len(data_store[s].restaurants)
  /\ LET order == [id |-> <<>>, user_id |-> data_store[s].users[u].id,
                   restaurant_id |-> data_store[s].restaurants[r].id,
                   restaurant_name |-> data_store[s].restaurants[r].name,
                   item_details |-> <<>>, total_amount |-> 0,
                   delivery_address |-> "12 Main St", status |-> <<>>]
         doc1 == add_order(data_store[s], order)
     IN /\ data_store' = Upd(data_store, s, doc1)
        /\ disk' = _save_data_to_file(disk, doc1, io)
  /\ out' = NoOut
  /\ UNCHANGED <<now, loaded, user, authenticated, user_type, cart, selected_restaurant,
                 active_orders, selected_order, simulate_status, delivery_progress, sleeping>>

\* one run of the customer tracking page (it re-runs itself every five seconds):
\* pick is the entry chosen in the order selectbox, rnd is random.random() < 0.1
TrackingRefresh(s, pick, rnd) ==
  /\ Ready(s) /\ check_authentication(s) /\ user_type[s] = "customer"
  /\ LET doc == data_store[s]
         mine == get_orders_by_user(doc, CurrentUser(s).id)
         active == {i \in mine : doc.orders[i].status \in ActiveStatuses}
         past == {i \in mine : doc.orders[i].status \in TerminalStatuses}
         sel == IF mine = {} THEN selected_order[s]
                ELSE IF Cardinality(active) > 1 /\ selected_order[s] = 0 THEN pick
                ELSE IF Cardinality(active) = 1 /\ selected_order[s] = 0
                  THEN CHOOSE i \in active : TRUE
                ELSE selected_order[s]
         shown == mine # {} /\ sel # 0
         fires == shown /\ AutoAdvanceFires(rnd, simulate_status[s], doc.orders[sel].status)
         status == IF fires THEN AutoAdvance(doc.orders[sel].status)
                   ELSE IF shown THEN doc.orders[sel].status ELSE "none"
     IN /\ (Cardinality(active) > 1 /\ selected_order[s] = 0) => pick \in active
        /\ ~(Cardinality(active) > 1 /\ selected_order[s] = 0) => pick = 0
        /\ selected_order' = Upd(selected_order, s, sel)
        /\ data_store' = IF fires
             THEN Upd(data_store, s, SetStatus(doc, sel, AutoAdvance(doc.orders[sel].status)))
             ELSE data_store
        /\ simulate_status' = IF fires THEN Upd(simulate_status, s, TRUE) ELSE simulate_status
        /\ delivery_progress' = IF status = "out_for_delivery"
             THEN Upd(delivery_progress, s, next_delivery_progress(delivery_progress[s]))
             ELSE delivery_progress
        /\ out' = IF shown THEN Out(s, "tracking", <<doc.orders[sel].id>>, <<>>) ELSE NoOut
  /\ UNCHANGED <<disk, now, loaded, user, authenticated, user_type, cart, selected_restaurant,
                 active_orders, sleeping>>

\* "Track" on another active order o: the list of the other active orders is
\* rendered once the tracked order is delivered or cancelled, while more than
\* one order is active
TrackOther(s, o) ==
  /\ Ready(s) /\ check_authentication(s) /\ user_type[s] = "customer"
  /\ selected_order[s] # 0
  /\ data_store[s].orders[selected_order[s]].status \in TerminalStatuses
  /\ LET mine == get_orders_by_user(data_store[s], CurrentUser(s).id)
         active == {i \in mine : data_store[s].orders[i].status \in ActiveStatuses}
     IN /\ mine # {}
        /\ Cardinality(active) > 1
        /\ o \in active
        /\ data_store[s].orders[o].id # data_store[s].orders[selected_order[s]].id
  /\ selected_order' = Upd(selected_order, s, o)
  /\ delivery_progress' = Upd(delivery_progress, s, InitialProgress)
  /\ out' = NoOut
  /\ UNCHANGED <<disk, now, loaded, data_store, user, authenticated, user_type, cart,
                 selected_restaurant, active_orders, simulate_status, sleeping>>

\* "View Past Orders", rendered once the tracked order is delivered or cancelled
ViewPastOrders(s) ==
  /\ Ready(s) /\ check_authentication(s) /\ user_type[s] = "customer"
  /\ selected_order[s] # 0
  /\ data_store[s].orders[selected_order[s]].status \in TerminalStatuses
  /\ \E i \in get_orders_by_user(data_store[s], CurrentUser(s).id) :
        data_store[s].orders[i].status \in TerminalStatuses
  /\ selected_order' = Upd(selected_order, s, 0)
  /\ out' = NoOut
  /\ UNCHANGED <<disk, now, loaded, data_store, user, authenticated, user_type, cart,
                 selected_restaurant, active_orders, simulate_status, delivery_progress, sleeping>>

\* the vendor tracking page is reached by every user type but "customer" and
\* needs the restaurant embedded in the user record
VendorPage(s) ==
  /\ Ready(s) /\ check_authentication(s) /\ user_type[s] # "customer"
  /\ CurrentUser(s).restaurant # <<>>

VendorOrders(s) == get_orders_by_restaurant(data_store[s], CurrentUser(s).restaurant[1].id)

send_sms_notification_unchecked(credentials, twilio) ==
  IF twilio
    THEN [success |-> TRUE, called |-> TRUE, shown |-> "none"]
    ELSE [success |-> FALSE, called |-> TRUE, shown |-> "error"]

\* send_sms_notification: credentials tells whether all three TWILIO_* settings
\* are present, twilio whether client.messages.create succeeds when called;
\* called tells whether the Twilio client was used, shown what st.* reported
send_sms_notification(credentials, twilio) ==
  IF ~credentials
    THEN [success |-> FALSE, called |-> FALSE, shown |-> "warning"]
  ELSE IF twilio
    THEN [success |-> TRUE, called |-> TRUE, shown |-> "none"]
    ELSE [success |-> FALSE, called |-> TRUE, shown |-> "error"]

send_order_status_update_unguarded(customer, sms) ==
  IF customer = 0 \/ ~sms THEN "raises" ELSE "sent"

\* send_order_status_update for the user at position customer (0 is None): it
\* subscripts the user, which raises on None; send_sms_notification then
\* returns success (sms) or, without credentials or on a Twilio exception that
\* it catches, failure (~sms)
send_order_status_update(customer, sms) ==
  IF customer = 0 THEN "raises" ELSE IF sms THEN "sent" ELSE "failed"

\* a button of show_vendor_tracking on order o: set the status on the order
\* object, dispatch the SMS, update_order
VendorButton(s, o, kind, sms, io) ==
  /\ VendorPage(s)
  /\ o \in VendorOrders(s)
  /\ data_store[s].orders[o].status = ButtonFrom(kind)
  /\ LET doc1 == SetStatus(data_store[s], o, ButtonTo(kind))
         customer == get_user_by_id(doc1, doc1.orders[o].user_id)
         doc2 == update_order(doc1, doc1.orders[o])
         result == send_order_status_update(customer, sms)
     IN IF result = "raises" THEN
          \* the exception ends the run before update_order
          /\ data_store' = Upd(data_store, s, doc1)
          /\ out' = Out(s, "exception", <<doc1.orders[o].id>>, <<>>)
          /\ UNCHANGED disk
        ELSE
          /\ data_store' = Upd(data_store, s, doc2)
          /\ disk' = IF update_order_found(doc1, doc1.orders[o])
                       THEN _save_data_to_file(disk, doc2, io) ELSE disk
          /\ out' = Out(s, kind, <<doc1.orders[o].id>>,
                         <<[status |-> ButtonTo(kind), ok |-> result = "sent"]>>)
  /\ UNCHANGED <<now, loaded, user, authenticated, user_type, cart, selected_restaurant,
                 active_orders, selected_order, simulate_status, delivery_progress, sleeping>>

Accept(s, o, sms, io) == VendorButton(s, o, "accept", sms, io)

Reject(s, o, sms, io) == VendorButton(s, o, "reject", sms, io)

ReadyForDelivery(s, o, sms, io) == VendorButton(s, o, "ready", sms, io)

MarkDelivered(s, o, sms, io) == VendorButton(s, o, "deliver", sms, io)

\* "Accept Order" / "Reject Order" on the vendor home page, listed for the
\* session's active_orders: the page reports the action and stores nothing
HomeButton(s, a, kind) ==
  /\ Ready(s) /\ check_authentication(s) /\ user_type[s] # "customer"
  /\ a \in 1..Len(active_orders[s])
  /\ out' = Out(s, kind, <<data_store[s].orders[active_orders[s][a]].id>>, <<>>)
  /\ UNCHANGED <<disk, now, loaded, data_store, user, authenticated, user_type, cart,
                 selected_restaurant, active_orders, selected_order, simulate_status,
                 delivery_progress, sleeping>>

HomeAccept(s, a) == HomeButton(s, a, "accept")

HomeReject(s, a) == HomeButton(s, a, "reject")

\* "Save Changes" on the profile page: the user object is edited in place
ProfileSave(s, name, address) ==
  /\ Ready(s) /\ check_authentication(s)
  /\ data_store' = Upd(data_store, s, [data_store[s] EXCEPT !.users[user[s]].name = name,
                                                            !.users[user[s]].address = address])
  /\ out' = Out(s, "profile_saved", <<>>, <<>>)
  /\ UNCHANGED <<disk, now, loaded, user, authenticated, user_type, cart, selected_restaurant,
                 active_orders, selected_order, simulate_status, delivery_progress, sleeping>>

\* ------------------------------------------------ calls of the store API
\* an id that no stored record carries
GhostId == IdStr("ghost", 0)

MenuPrices == {20}

\* the records a caller may hand to update_*: a stored record with a field
\* changed, or one whose id is not in the collection
UserRecs(doc) ==
  {[doc.users[i] EXCEPT !.name = n] : i \in 1..Len(doc.users), n \in Names}
    \cup {[doc.users[i] EXCEPT !.id = GhostId] : i \in 1..Len(doc.users)}

RestaurantRecs(doc) ==
  {[doc.restaurants[i] EXCEPT !.name = n] : i \in 1..Len(doc.restaurants), n \in RestNames}
    \cup {[doc.restaurants[i] EXCEPT !.id = GhostId] : i \in 1..Len(doc.restaurants)}

MenuItemRecs(doc) ==
  {[doc.menu_items[i] EXCEPT !.price = p] : i \in 1..Len(doc.menu_items), p \in MenuPrices}
    \cup {[doc.menu_items[i] EXCEPT !.id = GhostId] : i \in 1..Len(doc.menu_items)}

OrderRecs(doc) ==
  {[doc.orders[i] EXCEPT !.status = st] : i \in 1..Len(doc.orders), st \in {"confirmed", "cancelled"}}
    \cup {[doc.orders[i] EXCEPT !.id = GhostId] : i \in 1..Len(doc.orders)}

\* update_user(rec) called on the session's store; out carries the return value
UpdateUserCall(s, rec, io) ==
  /\ Ready(s)
  /\ rec \in UserRecs(data_store[s])
  /\ data_store' = Upd(data_store, s, update_user(data_store[s], rec))
  /\ disk' = IF update_user_found(data_store[s], rec)
               THEN _save_data_to_file(disk, update_user(data_store[s], rec), io) ELSE disk
  /\ out' = Out(s, "update_user", <<rec.id>>, <<update_user_returns(data_store[s], rec, io)>>)
  /\ UNCHANGED <<now, loaded, user, authenticated, user_type, cart, selected_restaurant,
                 active_orders, selected_order, simulate_status, delivery_progress, sleeping>>

UpdateRestaurantCall(s, rec, io) ==
  /\ Ready(s)
  /\ rec \in RestaurantRecs(data_store[s])
  /\ data_store' = Upd(data_store, s, update_restaurant(data_store[s], rec))
  /\ disk' = IF update_restaurant_found(data_store[s], rec)
               THEN _save_data_to_file(disk, update_restaurant(data_store[s], rec), io) ELSE disk
  /\ out' = Out(s, "update_restaurant", <<rec.id>>, <<update_restaurant_found(data_store[s], rec)>>)
  /\ UNCHANGED <<now, loaded, user, authenticated, user_type, cart, selected_restaurant,
                 active_orders, selected_order, simulate_status, delivery_progress, sleeping>>

UpdateMenuItemCall(s, rec, io) ==
  /\ Ready(s)
  /\ rec \in MenuItemRecs(data_store[s])
  /\ data_store' = Upd(data_store, s, update_menu_item(data_store[s], rec))
  /\ disk' = IF update_menu_item_found(data_store[s], rec)
               THEN _save_data_to_file(disk, update_menu_item(data_store[s], rec), io) ELSE disk
  /\ out' = Out(s, "update_menu_item", <<rec.id>>, <<update_menu_item_found(data_store[s], rec)>>)
  /\ UNCHANGED <<now, loaded, user, authenticated, user_type, cart, selected_restaurant,
                 active_orders, selected_order, simulate_status, delivery_progress, sleeping>>

UpdateOrderCall(s, rec, io) ==
  /\ Ready(s)
  /\ rec \in OrderRecs(data_store[s])
  /\ data_store' = Upd(data_store, s, update_order(data_store[s], rec))
  /\ disk' = IF update_order_found(data_store[s], rec)
               THEN _save_data_to_file(disk, update_order(data_store[s], rec), io) ELSE disk
  /\ out' = Out(s, "update_order", <<rec.id>>, <<update_order_returns(data_store[s], rec, io)>>)
  /\ UNCHANGED <<now, loaded, user, authenticated, user_type, cart, selected_restaurant,
                 active_orders, selected_order, simulate_status, delivery_progress, sleeping>>

\* calculate_eta(d10 / 10) at the given speed; out carries the inputs and the result
CalculateEta(s, d10, speed) ==
  /\ Ready(s)
  /\ out' = Out(s, "calculate_eta", <<d10, speed>>, <<calculate_eta(d10, speed)>>)
  /\ UNCHANGED <<disk, now, loaded, data_store, user, authenticated, user_type, cart,
                 selected_restaurant, active_orders, selected_order, simulate_status,
                 delivery_progress, sleeping>>

NextAuth ==
  \/ \E s \in Sessions : StartSession(s)
  \/ \E s \in Sessions : Wake(s)
  \/ \E s \in Sessions, n \in RegNames, e \in Emails \cup {""}, p \in RegPasswords, c \in Passwords,
        t \in UserTypes, io \in IOOk : Register(s, n, e, p, c, t, io)
  \/ \E s \in Sessions, e \in Emails \cup {""}, p \in Passwords, t \in UserTypes, io \in IOOk :
        Login(s, e, p, t, io)
  \/ \E s \in Sessions, io \in IOOk : Logout(s, io)

SpecAuth == Init /\ [][NextAuth]_vars

\* ------------------------------------------------ order-lifecycle scenario
\* The data file as left by earlier sessions: a customer, a vendor whose
\* record embeds the restaurant, that restaurant and its menu; no orders yet.
\* "distance" is <<>> while the record carries no such key
Rest1 == [id |-> IdStr("rest", 1), owner_id |-> IdStr("", 1), name |-> "Dosa Hut",
          location |-> [lat |-> 301, lng |-> 0], distance |-> <<>>]

Rest2 == [id |-> IdStr("rest", 2), owner_id |-> IdStr("", 1), name |-> "Wok Inn",
          location |-> [lat |-> 600, lng |-> 0], distance |-> <<>>]

SeedUsers ==
  << NewUser("Ann", "a@x", "pw1", "customer", 0),
     [NewUser("Bob", "b@x", "pw1", "vendor", 1) EXCEPT !.restaurant = <<Rest1>>] >>

SeedMenu ==
  << [id |-> IdStr("item", 1), restaurant_id |-> Rest1.id, price |-> 50],
     [id |-> IdStr("item", 2), restaurant_id |-> Rest2.id, price |-> 70],
     [id |-> IdStr("item", 3), restaurant_id |-> Rest1.id, price |-> 20] >>

SeedDoc ==
  [users |-> SeedUsers, restaurants |-> <<Rest1, Rest2>>, menu_items |-> SeedMenu, orders |-> <<>>]

InitOrders ==
  /\ disk = File(SeedDoc)
  /\ now = MaxClock
  /\ loaded = [s \in Sessions |-> FALSE]
  /\ data_store = [s \in Sessions |-> EmptyDoc]
  /\ user = [s \in Sessions |-> 0]
  /\ authenticated = [s \in Sessions |-> FALSE]
  /\ user_type = [s \in Sessions |-> "none"]
  /\ cart = [s \in Sessions |-> <<>>]
  /\ selected_restaurant = [s \in Sessions |-> <<>>]
  /\ active_orders = [s \in Sessions |-> <<>>]
  /\ selected_order = [s \in Sessions |-> 0]
  /\ simulate_status = [s \in Sessions |-> FALSE]
  /\ delivery_progress = [s \in Sessions |-> InitialProgress]
  /\ sleeping = [s \in Sessions |-> FALSE]
  /\ out = NoOut

Narrow(s) == Len(data_store[s].orders) < MaxOrdersNarrow

\* "Place Order" while the store holds fewer than MaxOrdersNarrow orders
PlaceOrderNarrow(s, address, sms, io) == Narrow(s) /\ PlaceOrder(s, address, sms, io)

\* add_order while the store holds fewer than MaxOrdersNarrow orders
AddOrderCallNarrow(s, u, r, io) == Narrow(s) /\ AddOrderCall(s, u, r, io)

\* a run of the tracking page while delivery_progress is at most MaxProgressNarrow
TrackingRefreshNarrow(s, pick, rnd) ==
  delivery_progress[s] <= MaxProgressNarrow /\ TrackingRefresh(s, pick, rnd)

\* One browser is the customer's and one the vendor's
NextOrders ==
  \/ \E s \in Sessions : StartSession(s)
  \/ \E s \in Sessions : Wake(s)
  \/ \E io \in IOOk : Login("s1", "a@x", "pw1", "customer", io)
  \/ \E io \in IOOk : Login("s2", "b@x", "pw1", "vendor", io)
  \/ \E s \in Sessions, io \in IOOk : Logout(s, io)
  \/ \E s \in Sessions : ViewMenu(s, 1)
  \/ \E s \in Sessions : AddToCart(s, 1)
  \/ \E s \in Sessions, a \in Addresses, io \in IOOk : PlaceOrderNarrow(s, a, TRUE, io)
  \/ \E s \in Sessions, k \in 0..MaxOrdersNarrow, rnd \in BOOLEAN : TrackingRefresh(s, k, rnd)
  \/ \E s \in Sessions, o \in 1..MaxOrdersNarrow, io \in IOOk : Accept(s, o, TRUE, io)
  \/ \E s \in Sessions, o \in 1..MaxOrdersNarrow, io \in IOOk : Reject(s, o, TRUE, io)
  \/ \E s \in Sessions, o \in 1..MaxOrdersNarrow, io \in IOOk : ReadyForDelivery(s, o, TRUE, io)
  \/ \E s \in Sessions, o \in 1..MaxOrdersNarrow, io \in IOOk : MarkDelivered(s, o, TRUE, io)

SpecOrders == InitOrders /\ [][NextOrders]_vars

\* ---------------------------------------------------- one-browser scenario
\* A single browser in which customer and vendor log in one after the other
NextClient ==
  \/ StartSession("s1")
  \/ Wake("s1")
  \/ \E e \in Emails, t \in UserTypes, io \in IOOk : Login("s1", e, "pw1", t, io)
  \/ \E io \in IOOk : Logout("s1", io)
  \/ ViewMenu("s1", 1)
  \/ AddToCart("s1", 1)
  \/ \E a \in Addresses, io \in IOOk : PlaceOrder("s1", a, TRUE, io)
  \/ \E io \in IOOk : AddOrderCall("s1", 1, 1, io)
  \/ \E k \in 0..MaxOrders, rnd \in BOOLEAN : TrackingRefreshNarrow("s1", k, rnd)
  \/ ViewPastOrders("s1")
  \/ \E o \in 1..MaxOrders, io \in IOOk : Accept("s1", o, TRUE, io)
  \/ \E o \in 1..MaxOrders, io \in IOOk : Reject("s1", o, TRUE, io)
  \/ \E o \in 1..MaxOrders, io \in IOOk : ReadyForDelivery("s1", o, TRUE, io)
  \/ \E o \in 1..MaxOrders, io \in IOOk : MarkDelivered("s1", o, TRUE, io)
  \/ \E a \in 1..MaxOrders : HomeAccept("s1", a)
  \/ \E a \in 1..MaxOrders : HomeReject("s1", a)

SpecClient == InitOrders /\ [][NextClient]_vars

\* ------------------------------------------------------------ cart scenario
\* A single browser, the customer shopping across both restaurants
NextCart ==
  \/ StartSession("s1")
  \/ Wake("s1")
  \/ \E io \in IOOk : Login("s1", "a@x", "pw1", "customer", io)
  \/ \E io \in IOOk : Logout("s1", io)
  \/ \E r \in 1..2 : ViewMenu("s1", r)
  \/ BackToList("s1")
  \/ \E m \in 1..3 : AddToCart("s1", m)
  \/ \E l \in 1..3 : RemoveFromCart("s1", l)

SpecCart == InitOrders /\ [][NextCart]_vars

\* --------------------------------------------------------- profile scenario
\* A single browser in which either user logs in and edits the profile
NextProfile ==
  \/ StartSession("s1")
  \/ Wake("s1")
  \/ \E e \in Emails, t \in UserTypes, io \in IOOk : Login("s1", e, "pw1", t, io)
  \/ \E io \in IOOk : Logout("s1", io)
  \/ \E n \in Names, a \in Addresses : ProfileSave("s1", n, a)

SpecProfile == InitOrders /\ [][NextProfile]_vars

\* ------------------------------------------------------ error-path scenario
\* A single browser in which file writes fail and the SMS dispatch fails
ButtonKinds == {"accept", "reject", "ready", "deliver"}

NextFaults ==
  \/ StartSession("s1")
  \/ Wake("s1")
  \/ \E e \in Emails, t \in UserTypes, io \in IOOk : Login("s1", e, "pw1", t, io)
  \/ \E io \in IOOk : Logout("s1", io)
  \/ ViewMenu("s1", 1)
  \/ AddToCart("s1", 1)
  \/ \E a \in Addresses, sms \in SmsOutcomes, io \in IOOutcomes : PlaceOrderNarrow("s1", a, sms, io)
  \/ \E o \in 1..MaxOrdersNarrow, sms \in SmsOutcomes, io \in IOOutcomes : Accept("s1", o, sms, io)
  \/ \E o \in 1..MaxOrdersNarrow, sms \in SmsOutcomes, io \in IOOutcomes : Reject("s1", o, sms, io)
  \/ \E o \in 1..MaxOrdersNarrow, sms \in SmsOutcomes, io \in IOOutcomes :
        ReadyForDelivery("s1", o, sms, io)
  \/ \E o \in 1..MaxOrdersNarrow, sms \in SmsOutcomes, io \in IOOutcomes :
        MarkDelivered("s1", o, sms, io)

SpecFaults == InitOrders /\ [][NextFaults]_vars

\* --------------------------------------------------------- vendor scenario
\* The file after the customer placed two orders of one item at the vendor's
\* restaurant; a single browser in which the vendor works through them
SeedOrder ==
  [id |-> <<>>, user_id |-> SeedUsers[1].id,
   restaurant_id |-> Rest1.id, restaurant_name |-> Rest1.name,
   item_details |-> <<CartLine(SeedMenu[1], Rest1)>>,
   total_amount |-> CartTotal(<<CartLine(SeedMenu[1], Rest1)>>),
   delivery_address |-> "12 Main St", status |-> <<"confirmed">>]

SeedDocWithOrders == add_order(add_order(SeedDoc, SeedOrder), SeedOrder)

InitVendor ==
  /\ disk = File(SeedDocWithOrders)
  /\ now = MaxClock
  /\ loaded = [s \in Sessions |-> FALSE]
  /\ data_store = [s \in Sessions |-> EmptyDoc]
  /\ user = [s \in Sessions |-> 0]
  /\ authenticated = [s \in Sessions |-> FALSE]
  /\ user_type = [s \in Sessions |-> "none"]
  /\ cart = [s \in Sessions |-> <<>>]
  /\ selected_restaurant = [s \in Sessions |-> <<>>]
  /\ active_orders = [s \in Sessions |-> <<>>]
  /\ selected_order = [s \in Sessions |-> 0]
  /\ simulate_status = [s \in Sessions |-> FALSE]
  /\ delivery_progress = [s \in Sessions |-> InitialProgress]
  /\ sleeping = [s \in Sessions |-> FALSE]
  /\ out = NoOut

NextVendor ==
  \/ StartSession("s1")
  \/ Wake("s1")
  \/ \E io \in IOOk : Login("s1", "b@x", "pw1", "vendor", io)
  \/ \E io \in IOOk : Logout("s1", io)
  \/ \E o \in 1..2, sms \in SmsOutcomes, io \in IOOk : Accept("s1", o, sms, io)
  \/ \E o \in 1..2, sms \in SmsOutcomes, io \in IOOk : Reject("s1", o, sms, io)
  \/ \E o \in 1..2, sms \in SmsOutcomes, io \in IOOk : ReadyForDelivery("s1", o, sms, io)
  \/ \E o \in 1..2, sms \in SmsOutcomes, io \in IOOk : MarkDelivered("s1", o, sms, io)

SpecVendor == InitVendor /\ [][NextVendor]_vars

\* ----------------------------------------------------------- form scenario
\* The seeded file with the clock one second short of MaxClock, so that the
\* register form is still served: a single browser submits the register form
\* and the checkout form, complete and incomplete
InitForms ==
  /\ disk = File(SeedDoc)
  /\ now = MaxClock - 1
  /\ loaded = [s \in Sessions |-> FALSE]
  /\ data_store = [s \in Sessions |-> EmptyDoc]
  /\ user = [s \in Sessions |-> 0]
  /\ authenticated = [s \in Sessions |-> FALSE]
  /\ user_type = [s \in Sessions |-> "none"]
  /\ cart = [s \in Sessions |-> <<>>]
  /\ selected_restaurant = [s \in Sessions |-> <<>>]
  /\ active_orders = [s \in Sessions |-> <<>>]
  /\ selected_order = [s \in Sessions |-> 0]
  /\ simulate_status = [s \in Sessions |-> FALSE]
  /\ delivery_progress = [s \in Sessions |-> InitialProgress]
  /\ sleeping = [s \in Sessions |-> FALSE]
  /\ out = NoOut

NextForms ==
  \/ StartSession("s1")
  \/ Wake("s1")
  \/ \E n \in RegNames, e \in Emails \cup {""}, p \in RegPasswords, c \in Passwords,
        t \in UserTypes, io \in IOOk : Register("s1", n, e, p, c, t, io)
  \/ \E e \in Emails, t \in UserTypes, io \in IOOk : Login("s1", e, "pw1", t, io)
  \/ \E io \in IOOk : Logout("s1", io)
  \/ \E r \in 1..2 : ViewMenu("s1", r)
  \/ BackToList("s1")
  \/ AddToCart("s1", 1)
  \/ \E a \in Addresses, io \in IOOk : PlaceOrderNarrow("s1", a, TRUE, io)

SpecForms == InitForms /\ [][NextForms]_vars

\* ------------------------------------------------------ store-API scenario
\* One session's store driven through the update_* calls with matching and
\* non-matching records
NextStore ==
  \/ StartSession("s1")
  \/ \E io \in IOOk : AddOrderCallNarrow("s1", 1, 1, io)
  \/ \E rec \in UserRecs(data_store["s1"]), io \in IOOk : UpdateUserCall("s1", rec, io)
  \/ \E rec \in RestaurantRecs(data_store["s1"]), io \in IOOk : UpdateRestaurantCall("s1", rec, io)
  \/ \E rec \in MenuItemRecs(data_store["s1"]), io \in IOOk : UpdateMenuItemCall("s1", rec, io)
  \/ \E rec \in OrderRecs(data_store["s1"]), io \in IOOk : UpdateOrderCall("s1", rec, io)

SpecStore == InitOrders /\ [][NextStore]_vars

\* send_sms_notification called in a deployment with or without credentials;
\* out carries the two circumstances and the result
SendSmsNotification(s, credentials, twilio) ==
  /\ Ready(s)
  /\ out' = Out(s, "send_sms_notification", <<credentials, twilio>>,
                 <<send_sms_notification(credentials, twilio)>>)
  /\ UNCHANGED <<disk, now, loaded, data_store, user, authenticated, user_type, cart,
                 selected_restaurant, active_orders, selected_order, simulate_status,
                 delivery_progress, sleeping>>

\* calculate_distance between two points of the meridian; out carries the
\* points and the result
CalculateDistance(s, lat1, lat2) ==
  /\ Ready(s)
  /\ out' = Out(s, "calculate_distance", <<lat1, lat2>>, <<calculate_distance(lat1, 0, lat2, 0)>>)
  /\ UNCHANGED <<disk, now, loaded, data_store, user, authenticated, user_type, cart,
                 selected_restaurant, active_orders, selected_order, simulate_status,
                 delivery_progress, sleeping>>

\* get_nearby_restaurants(user_location, restaurants, radius_km); out carries
\* the arguments and the list returned
GetNearbyRestaurants(s, lat, restaurants, radius_km) ==
  /\ Ready(s)
  /\ out' = Out(s, "get_nearby_restaurants", <<lat, restaurants, radius_km>>,
                 <<get_nearby_restaurants([lat |-> lat, lng |-> 0], restaurants, radius_km)>>)
  /\ UNCHANGED <<disk, now, loaded, data_store, user, authenticated, user_type, cart,
                 selected_restaurant, active_orders, selected_order, simulate_status,
                 delivery_progress, sleeping>>

\* -------------------------------------------------------------- geo scenario
\* positions around 1 km and 2 km from the origin, a third of 0.01 km apart
Lats == {-300, 0, 299, 300, 301, 302, 600, 601}

UserLats == {0, 1}

Radii == {1, 2}

RestaurantAt(rec, lat) == [rec EXCEPT !.location.lat = lat]

\* restaurant lists of up to two records
RestaurantLists ==
  {<<>>} \cup {<<RestaurantAt(Rest1, a)>> : a \in Lats}
         \cup {<<RestaurantAt(Rest1, a), RestaurantAt(Rest2, b)>> : a \in Lats, b \in Lats}

NextGeo ==
  \/ StartSession("s1")
  \/ \E d10 \in 0..MaxDist10, speed \in Speeds : CalculateEta("s1", d10, speed)
  \/ \E lat1 \in Lats, lat2 \in Lats : CalculateDistance("s1", lat1, lat2)
  \/ \E lat \in UserLats, rs \in RestaurantLists, radius \in Radii :
        GetNearbyRestaurants("s1", lat, rs, radius)

SpecGeo == InitOrders /\ [][NextGeo]_vars

\* -------------------------------------------------------- tracking scenario
\* The file holds three orders of the customer, two out for delivery and one
\* being prepared; a single browser in which the customer follows them and
\* the vendor marks them delivered
SeedDocTracking ==
  LET doc == add_order(SeedDocWithOrders, SeedOrder)
  IN [doc EXCEPT !.orders[1].status = "out_for_delivery",
                 !.orders[2].status = "out_for_delivery",
                 !.orders[3].status = "preparing"]

InitTracking ==
  /\ disk = File(SeedDocTracking)
  /\ now = MaxClock
  /\ loaded = [s \in Sessions |-> FALSE]
  /\ data_store = [s \in Sessions |-> EmptyDoc]
  /\ user = [s \in Sessions |-> 0]
  /\ authenticated = [s \in Sessions |-> FALSE]
  /\ user_type = [s \in Sessions |-> "none"]
  /\ cart = [s \in Sessions |-> <<>>]
  /\ selected_restaurant = [s \in Sessions |-> <<>>]
  /\ active_orders = [s \in Sessions |-> <<>>]
  /\ selected_order = [s \in Sessions |-> 0]
  /\ simulate_status = [s \in Sessions |-> FALSE]
  /\ delivery_progress = [s \in Sessions |-> InitialProgress]
  /\ sleeping = [s \in Sessions |-> FALSE]
  /\ out = NoOut

NextTracking ==
  \/ StartSession("s1")
  \/ Wake("s1")
  \/ \E io \in IOOk : Login("s1", "a@x", "pw1", "customer", io)
  \/ \E io \in IOOk : Login("s1", "b@x", "pw1", "vendor", io)
  \/ \E io \in IOOk : Logout("s1", io)
  \/ \E k \in 0..3, rnd \in BOOLEAN : TrackingRefresh("s1", k, rnd)
  \/ ViewPastOrders("s1")
  \/ \E o \in 1..3 : TrackOther("s1", o)
  \/ \E o \in 1..3, io \in IOOk : MarkDelivered("s1", o, TRUE, io)

SpecTracking == InitTracking /\ [][NextTracking]_vars

\* ----------------------------------------------------------- views scenario
\* A single browser in which the customer looks at the home page, the
\* restaurant pages and the tracking page, and orders
NextViews ==
  \/ StartSession("s1")
  \/ Wake("s1")
  \/ \E io \in IOOk : Login("s1", "a@x", "pw1", "customer", io)
  \/ \E io \in IOOk : Logout("s1", io)
  \/ ShowCustomerHome("s1")
  \/ \E r \in 1..2 : OrderNow("s1", r)
  \/ ShowRestaurants("s1")
  \/ \E r \in 1..2 : ViewMenu("s1", r)
  \/ BackToList("s1")
  \/ AddToCart("s1", 1)
  \/ \E io \in IOOk : PlaceOrderNarrow("s1", "12 Main St", TRUE, io)
  \/ \E k \in 0..MaxOrdersNarrow, rnd \in BOOLEAN : TrackingRefresh("s1", k, rnd)

SpecViews == InitOrders /\ [][NextViews]_vars

\* ------------------------------------------------------------- SMS scenario
\* A single browser in a deployment with or without the Twilio settings: what
\* the handlers get back from the dispatch is send_sms_notification's success
NextSms ==
  \/ StartSession("s1")
  \/ Wake("s1")
  \/ \E e \in Emails, t \in UserTypes, io \in IOOk : Login("s1", e, "pw1", t, io)
  \/ \E io \in IOOk : Logout("s1", io)
  \/ ViewMenu("s1", 1)
  \/ AddToCart("s1", 1)
  \/ \E c \in BOOLEAN, tw \in BOOLEAN : SendSmsNotification("s1", c, tw)
  \/ \E a \in Addresses, c \in BOOLEAN, tw \in BOOLEAN, io \in IOOk :
        PlaceOrderNarrow("s1", a, send_sms_notification(c, tw).success, io)
  \/ \E o \in 1..MaxOrdersNarrow, c \in BOOLEAN, tw \in BOOLEAN, io \in IOOk :
        Accept("s1", o, send_sms_notification(c, tw).success, io)
  \/ \E o \in 1..MaxOrdersNarrow, c \in BOOLEAN, tw \in BOOLEAN, io \in IOOk :
        Reject("s1", o, send_sms_notification(c, tw).success, io)
  \/ \E o \in 1..MaxOrdersNarrow, c \in BOOLEAN, tw \in BOOLEAN, io \in IOOk :
        ReadyForDelivery("s1", o, send_sms_notification(c, tw).success, io)
  \/ \E o \in 1..MaxOrdersNarrow, c \in BOOLEAN, tw \in BOOLEAN, io \in IOOk :
        MarkDelivered("s1", o, send_sms_notification(c, tw).success, io)

SpecSms == InitOrders /\ [][NextSms]_vars

\* ------------------------------------------------------------ load scenario
\* Two browsers start on a data file that is absent, intact or corrupt; the
\* writes of the first one may fail and leave the file corrupt for the second
InitLoad ==
  /\ disk \in {NoFile, File(SeedDoc), CorruptFile}
  /\ now = MaxClock
  /\ loaded = [s \in Sessions |-> FALSE]
  /\ data_store = [s \in Sessions |-> EmptyDoc]
  /\ user = [s \in Sessions |-> 0]
  /\ authenticated = [s \in Sessions |-> FALSE]
  /\ user_type = [s \in Sessions |-> "none"]
  /\ cart = [s \in Sessions |-> <<>>]
  /\ selected_restaurant = [s \in Sessions |-> <<>>]
  /\ active_orders = [s \in Sessions |-> <<>>]
  /\ selected_order = [s \in Sessions |-> 0]
  /\ simulate_status = [s \in Sessions |-> FALSE]
  /\ delivery_progress = [s \in Sessions |-> InitialProgress]
  /\ sleeping = [s \in Sessions |-> FALSE]
  /\ out = NoOut

NextLoad ==
  \/ \E s \in Sessions : StartSession(s)
  \/ \E s \in Sessions : StartSessionUnreadable(s)
  \/ \E s \in Sessions : Wake(s)
  \/ \E io \in IOOutcomes : Login("s1", "a@x", "pw1", "customer", io)
  \/ \E io \in IOOk : Logout("s1", io)
  \/ ViewMenu("s1", 1)
  \/ AddToCart("s1", 1)
  \/ \E io \in IOOutcomes : PlaceOrderNarrow("s1", "12 Main St", TRUE, io)

SpecLoad == InitLoad /\ [][NextLoad]_vars

\* ============================================================== properties
OrderStatuses == {"confirmed", "preparing", "out_for_delivery", "delivered", "cancelled"}

\* the documents that exist at a moment: every loaded session's store and the file
Docs == {data_store[s] : s \in {x \in Sessions : loaded[x]}} \cup {disk.doc}

\* C1: every order held in the Record Store, whether checkout inserted it or
\* add_order was given no status, has a status among confirmed, preparing,
\* out_for_delivery, delivered and cancelled.
C1_StatusInLifecycle ==
  \A doc \in Docs : \A i \in 1..Len(doc.orders) : doc.orders[i].status \in OrderStatuses

LifecycleSteps ==
  { <<"confirmed", "preparing">>, <<"preparing", "out_for_delivery">>,
    <<"out_for_delivery", "delivered">> } \cup { <<st, "cancelled">> : st \in OrderStatuses }

\* C2: every change of an order's status made by a vendor button or by the
\* auto-advance of the tracking page is confirmed->preparing,
\* preparing->out_for_delivery, out_for_delivery->delivered or a move to
\* cancelled: no step back and no state skipped.
C2_OnlyLifecycleSteps ==
  [][\A s \in Sessions : \A i \in 1..Len(data_store[s].orders) :
        \/ data_store'[s].orders[i].status = data_store[s].orders[i].status
        \/ <<data_store[s].orders[i].status, data_store'[s].orders[i].status>> \in LifecycleSteps]_vars

\* C2 witness: the vendor's browser has taken an order to delivered while the
\* customer's tracking page auto-advanced its own copy
C2_Witness ==
  /\ \E i \in 1..Len(data_store["s2"].orders) : data_store["s2"].orders[i].status = "delivered"
  /\ simulate_status["s1"]
  /\ \E i \in 1..Len(data_store["s1"].orders) : data_store["s1"].orders[i].status = "preparing"

\* C3: delivered and cancelled are terminal, in every session's store and in
\* the file: once an order has such a status no vendor action, tracking refresh
\* or store write of any session changes it again.
C3_TerminalIsFinal ==
  [][/\ \A s \in Sessions : \A i \in 1..Len(data_store[s].orders) :
          data_store[s].orders[i].status \in TerminalStatuses
            => data_store'[s].orders[i].status = data_store[s].orders[i].status
     /\ \A i \in 1..Len(disk.doc.orders) :
          disk.doc.orders[i].status \in TerminalStatuses
            => /\ i <= Len(disk'.doc.orders)
               /\ disk'.doc.orders[i].status = disk.doc.orders[i].status]_vars

StatusOf(doc, id) == doc.orders[First({k \in 1..Len(doc.orders) : doc.orders[k].id = id})].status

\* C4: checkout stores the order as confirmed, a vendor Reject on it leaves it
\* cancelled, and a cancelled order makes no further transition.
C4_RejectCancels ==
  /\ [](out.kind = "order_placed" => StatusOf(data_store[out.s], out.order[1]) = "confirmed")
  /\ [](out.kind = "reject" => StatusOf(data_store[out.s], out.order[1]) = "cancelled")
  /\ [][\A s \in Sessions : \A i \in 1..Len(data_store[s].orders) :
          data_store[s].orders[i].status = "cancelled"
            => data_store'[s].orders[i].status = "cancelled"]_vars

\* C5: on the vendor's order page an order that is confirmed or preparing can
\* be moved directly to cancelled by an available action.
C5_CancelFromPreparing ==
  \A s \in Sessions : VendorPage(s) =>
    \A o \in VendorOrders(s) :
      data_store[s].orders[o].status \in {"confirmed", "preparing"}
        => ENABLED (NextClient /\ data_store'[s].orders[o].status = "cancelled")

UniqueIds(seq) == \A i, j \in 1..Len(seq) : seq[i].id = seq[j].id => i = j

\* C7: no two records of one collection share an id, user ids taken from the
\* clock in whole seconds included.
C7_UniqueIds ==
  \A doc \in Docs :
    UniqueIds(doc.users) /\ UniqueIds(doc.restaurants) /\ UniqueIds(doc.menu_items)
      /\ UniqueIds(doc.orders)

\* C8: registering an email that already belongs to a stored user fails and
\* changes nothing, so no two stored users share an email.
C8_DuplicateEmailRejected ==
  /\ [][\A s \in Sessions, e \in Emails, c \in Passwords, t \in UserTypes :
          (Register(s, "Ann", e, "pw1", c, t, "ok") /\ get_user_by_email(data_store[s], e) # 0)
            => (/\ out'.kind \in {"email_exists", "pw_mismatch"}
                /\ UNCHANGED <<data_store, disk, user, authenticated, user_type>>)]_vars
  /\ [](\A doc \in Docs : \A i, j \in 1..Len(doc.users) :
          doc.users[i].email = doc.users[j].email => i = j)

Matching(doc, e, p, t) ==
  {i \in 1..Len(doc.users) : /\ doc.users[i].email = e
                              /\ doc.users[i].password_hash = hash_password(p)
                              /\ doc.users[i].user_type = t}

\* C9: a login succeeds, with the stored user as the session user, exactly when
\* the store holds a user with that email, the hash of that password and that
\* user type; every other login fails and logs nobody in.
\* (Every branch of Login with a non-empty email reports "welcome" or
\* "invalid_login" to its own session, so the outer antecedent is implied by
\* Login and only spares evaluating it on the steps of other handlers.)
C9_LoginIff ==
  [][\A s \in Sessions :
        (out'.s = s /\ out'.kind \in {"welcome", "invalid_login"}) =>
          \A e \in Emails, p \in Passwords, t \in UserTypes :
            Login(s, e, p, t, "ok") =>
              IF Matching(data_store[s], e, p, t) # {}
                THEN /\ out'.kind = "welcome"
                     /\ authenticated'[s]
                     /\ user'[s] \in Matching(data_store[s], e, p, t)
                ELSE /\ out'.kind = "invalid_login"
                     /\ ~authenticated'[s]
                     /\ user'[s] = user[s]]_vars

\* C9 witness: a login succeeded in a store that holds two users
C9_Witness ==
  \E s \in Sessions : /\ out = Out(s, "welcome", <<>>, <<>>)
                      /\ authenticated[s]
                      /\ Len(data_store[s].users) = 2

\* C10: after every action that changes a record of a session's store the file
\* holds that session's document.
C10_DiskFollowsMemory ==
  [][\A s \in Sessions : data_store'[s] # data_store[s] => disk'.doc = data_store'[s]]_vars

\* C11: when the file write of a mutating store call fails, the change stays
\* in the in-memory store and the call's caller is told: what the call hands
\* back differs from what it hands back after a successful write.
C11_WriteFailureReported ==
  [][\A s \in Sessions, sms \in SmsOutcomes, io \in IOFailures :
        /\ \A o \in 1..Len(data_store[s].orders), kind \in ButtonKinds :
             VendorButton(s, o, kind, sms, io) =>
               LET doc1 == SetStatus(data_store[s], o, ButtonTo(kind))
               IN /\ data_store'[s].orders[o].status = ButtonTo(kind)
                  /\ update_order_returns(doc1, doc1.orders[o], io)
                       # update_order_returns(doc1, doc1.orders[o], "ok")
        /\ PlaceOrder(s, "12 Main St", sms, io) =>
             LET order == CheckoutOrder(s, "12 Main St")
             IN /\ Len(data_store'[s].orders) = Len(data_store[s].orders) + 1
                /\ add_order_returns(data_store[s], order, io)
                     # add_order_returns(data_store[s], order, "ok")]_vars

\* C12: a record inserted by add_user and written without I/O failure is read
\* back, by its id, from a store freshly loaded from the file, equal in all
\* fields to the record inserted.
C12_RoundTrip ==
  [][\A s \in Sessions, e \in Emails, t \in UserTypes :
        (out'.s = s /\ out'.kind = "registered" /\ Register(s, "Ann", e, "pw1", "pw1", t, "ok")) =>
          LET u == NewUser("Ann", e, "pw1", t, now)
              fresh == _load_data_from_file(
                         _save_data_to_file(disk, add_user(data_store[s], u), "ok"), "ok")
              i == get_user_by_id(fresh, u.id)
          IN i # 0 /\ fresh.users[i] = u]_vars

\* C13: update_user, update_restaurant, update_menu_item and update_order
\* given a record whose id is not stored return False, leave the store as it
\* was and do not write the file; given a stored id they return True and
\* replace the record with that id and nothing else.
\* (Each call reports its own name and the record's id in out, so the first
\* conjunct of every antecedent is implied by the second and only spares
\* evaluating the call on other steps.)
C13_UpdateByIdOnly ==
  [][\A s \in Sessions :
        /\ \A rec \in UserRecs(data_store[s]) :
             (out' = Out(s, "update_user", <<rec.id>>, out'.sms) /\ UpdateUserCall(s, rec, "ok")) =>
             LET hits == {i \in 1..Len(data_store[s].users) : data_store[s].users[i].id = rec.id}
             IN IF hits = {}
                  THEN out'.sms = <<FALSE>> /\ data_store'[s] = data_store[s] /\ disk' = disk
                  ELSE /\ out'.sms = <<TRUE>>
                       /\ \E i \in hits : data_store'[s] = [data_store[s] EXCEPT !.users[i] = rec]
        /\ \A rec \in RestaurantRecs(data_store[s]) :
             (out' = Out(s, "update_restaurant", <<rec.id>>, out'.sms) /\ UpdateRestaurantCall(s, rec, "ok")) =>
             LET hits == {i \in 1..Len(data_store[s].restaurants) :
                            data_store[s].restaurants[i].id = rec.id}
             IN IF hits = {}
                  THEN out'.sms = <<FALSE>> /\ data_store'[s] = data_store[s] /\ disk' = disk
                  ELSE /\ out'.sms = <<TRUE>>
                       /\ \E i \in hits :
                            data_store'[s] = [data_store[s] EXCEPT !.restaurants[i] = rec]
        /\ \A rec \in MenuItemRecs(data_store[s]) :
             (out' = Out(s, "update_menu_item", <<rec.id>>, out'.sms) /\ UpdateMenuItemCall(s, rec, "ok")) =>
             LET hits == {i \in 1..Len(data_store[s].menu_items) :
                            data_store[s].menu_items[i].id = rec.id}
             IN IF hits = {}
                  THEN out'.sms = <<FALSE>> /\ data_store'[s] = data_store[s] /\ disk' = disk
                  ELSE /\ out'.sms = <<TRUE>>
                       /\ \E i \in hits :
                            data_store'[s] = [data_store[s] EXCEPT !.menu_items[i] = rec]
        /\ \A rec \in OrderRecs(data_store[s]) :
             (out' = Out(s, "update_order", <<rec.id>>, out'.sms) /\ UpdateOrderCall(s, rec, "ok")) =>
             LET hits == {i \in 1..Len(data_store[s].orders) : data_store[s].orders[i].id = rec.id}
             IN IF hits = {}
                  THEN out'.sms = <<FALSE>> /\ data_store'[s] = data_store[s] /\ disk' = disk
                  ELSE /\ out'.sms = <<TRUE>>
                       /\ \E i \in hits : data_store'[s] = [data_store[s] EXCEPT !.orders[i] = rec]]_vars

\* C13 witness: update_user has just returned False for an unknown id, in a
\* store that earlier updates have changed
C13_Witness ==
  /\ out = Out("s1", "update_user", <<GhostId>>, <<FALSE>>)
  /\ data_store["s1"].orders # <<>>
  /\ data_store["s1"].users # SeedUsers

\* C14: after a handler that writes (login, registration, checkout, a vendor
\* button) the file holds the writing session's whole document, whatever
\* another session wrote before, and no session's store changes through
\* another session's write or through the file after its first load.
C14_LastWriterWins ==
  /\ [](out.kind \in {"welcome", "registered", "order_placed"} \cup ButtonKinds
          => disk = File(data_store[out.s]))
  /\ [][\A s \in Sessions : (loaded[s] /\ out'.s # s) => data_store'[s] = data_store[s]]_vars

\* C14 witness: the customer's browser holds an order it persisted, and the
\* vendor's browser, loaded before that, has since written its own document:
\* the order is no longer in the file
C14_Witness ==
  /\ loaded["s1"] /\ loaded["s2"]
  /\ Len(data_store["s1"].orders) = 1
  /\ out.s = "s2"
  /\ disk = File(data_store["s2"])
  /\ disk.doc.orders = <<>>

\* C15: a vendor action whose SMS dispatch fails still sets the order's new
\* status and still persists it through update_order.
C15_SmsBestEffort ==
  [][\A s \in Sessions : \A o \in 1..Len(data_store[s].orders), kind \in ButtonKinds :
        VendorButton(s, o, kind, FALSE, "ok") =>
          /\ data_store'[s].orders[o].status = ButtonTo(kind)
          /\ disk' = File(data_store'[s])
          /\ disk'.doc.orders[o].status = ButtonTo(kind)]_vars

\* C15 witness: an order was rejected, the SMS was not sent, and the file holds
\* the cancelled order
C15_Witness ==
  /\ out.kind = "reject"
  /\ out.sms = <<[status |-> "cancelled", ok |-> FALSE]>>
  /\ disk = File(data_store[out.s])
  /\ StatusOf(disk.doc, out.order[1]) = "cancelled"

\* C16: every change of an order's status, the tracking page's auto-advance
\* included, comes with one SMS dispatch attempt that carries the new status.
C16_DispatchPerChange ==
  [][\A s \in Sessions : \A i \in 1..Len(data_store[s].orders) :
        data_store'[s].orders[i].status # data_store[s].orders[i].status
          => /\ Len(out'.sms) = 1
             /\ out'.sms[1].status = data_store'[s].orders[i].status]_vars

\* C17: a vendor status action changes the status field of its order and
\* nothing else: not another field of the order, not another order, user,
\* restaurant or menu item.
C17_VendorFrame ==
  [][\A s \in Sessions, sms \in SmsOutcomes :
      \A o \in 1..Len(data_store[s].orders), kind \in ButtonKinds :
        VendorButton(s, o, kind, sms, "ok") =>
          /\ data_store'[s] = [data_store[s] EXCEPT !.orders[o].status = ButtonTo(kind)]
          /\ \A t \in Sessions \ {s} : data_store'[t] = data_store[t]]_vars

\* C17 witness: a vendor button has acted on the second of two stored orders
C17_Witness ==
  /\ out.kind \in ButtonKinds
  /\ Len(out.sms) = 1
  /\ out.order = <<IdStr("order", 2)>>
  /\ Len(data_store[out.s].orders) = 2

\* C18: Place Order with an empty address creates no order and leaves cart,
\* active orders and store as they were; a registration with a missing field or
\* a password that differs from its confirmation creates no user and leaves the
\* session unauthenticated.
C18_ValidationNoChange ==
  [][\A s \in Sessions :
        /\ PlaceOrder(s, "", TRUE, "ok") =>
             /\ UNCHANGED <<data_store, disk, cart, active_orders>>
             /\ out'.kind = "enter_address"
        /\ \A e \in Emails \cup {""}, c \in Passwords, t \in UserTypes :
             (Register(s, "Ann", e, "pw1", c, t, "ok") /\ (e = "" \/ c # "pw1")) =>
               /\ UNCHANGED <<data_store, disk, user>>
               /\ ~authenticated'[s]
               /\ out'.kind \in {"fill_fields", "pw_mismatch"}]_vars

\* C18 witness: Place Order was refused for its empty address with a filled cart
C18_Witness ==
  /\ out.kind = "enter_address"
  /\ cart[out.s] # <<>>
  /\ data_store[out.s].orders = <<>>

\* C19: the cart never holds two lines with one item id, every line has a
\* quantity of at least 1, and add_to_cart for an item already in the cart adds
\* 1 to that line's quantity and adds no line.
C19_CartMergeById ==
  /\ [](\A s \in Sessions : \A i, j \in 1..Len(cart[s]) :
          cart[s][i].id = cart[s][j].id => i = j)
  /\ [](\A s \in Sessions : \A i \in 1..Len(cart[s]) : cart[s][i].quantity >= 1)
  /\ [][\A s \in Sessions : \A m \in 1..Len(data_store[s].menu_items), k \in 1..Len(cart[s]) :
          (AddToCart(s, m) /\ cart[s][k].id = data_store[s].menu_items[m].id)
            => cart'[s] = [cart[s] EXCEPT ![k].quantity = @ + 1]]_vars

\* C19 witness: a second add of an item raised its line to quantity 2 in a cart
\* of two lines
C19_Witness ==
  /\ out.kind = "added_to_cart"
  /\ Len(cart[out.s]) = 2
  /\ \E k \in 1..2 : cart[out.s][k].id = out.order[1] /\ cart[out.s][k].quantity = 2

\* C20: calculate_eta is (distance / speed) * 60 plus a buffer, truncated to an
\* integer; the buffer is 10 below 5 km and 15 from 5 km on, so that at speed 25
\* 4.9 km gives 21 and 5.0 km gives 27.
C20_Eta ==
  out.kind = "calculate_eta" =>
    LET d10 == out.order[1]
        speed == out.order[2]
        eta == out.sms[1]
        buffer == IF d10 < 50 THEN 10 ELSE 15
    IN /\ (eta - buffer) * speed <= d10 * 6
       /\ d10 * 6 < (eta - buffer + 1) * speed
       /\ (d10 = 49 /\ speed = 25) => eta = 21
       /\ (d10 = 50 /\ speed = 25) => eta = 27

\* C20 witness: the ETA for exactly 5 km at speed 25 was computed
C20_Witness == out = Out("s1", "calculate_eta", <<50, 25>>, <<27>>)

\* C21: get_nearby_restaurants returns exactly the restaurants within the
\* radius (none farther, none within it omitted), each a copy of the record it
\* was given annotated with its distance (to the 0.01 km the annotation keeps),
\* in non-decreasing order of true distance.
C21_NearbyExactSorted ==
  out.kind = "get_nearby_restaurants" =>
    LET lat == out.order[1]
        restaurants == out.order[2]
        radius_km == out.order[3]
        result == out.sms[1]
        TrueDistance(r) == calculate_distance(lat, 0, r.location.lat, r.location.lng)
        within == {k \in 1..Len(restaurants) : TrueDistance(restaurants[k]) <= Km(radius_km)}
    IN /\ Len(result) = Cardinality(within)
       /\ \A k \in within :
             \E i \in 1..Len(result) : [result[i] EXCEPT !.distance = <<>>] = restaurants[k]
       /\ \A i \in 1..Len(result) :
             /\ TrueDistance(result[i]) <= Km(radius_km)
             /\ result[i].distance # <<>>
             /\ 3 * result[i].distance[1] - TrueDistance(result[i]) \in -1..1
       /\ \A i \in 1..Len(result), j \in 1..Len(result) :
             i < j => TrueDistance(result[i]) <= TrueDistance(result[j])

C22_AuthConsistent ==
  /\ [](\A s \in Sessions :
          authenticated[s] =>
            /\ user[s] \in 1..Len(data_store[s].users)
            /\ user_type[s] = data_store[s].users[user[s]].user_type)
  /\ [][\A s \in Sessions :
          /\ (out'.s = s /\ out'.kind \in {"welcome", "registered"}) =>
                /\ authenticated'[s] /\ user'[s] # 0
                /\ user_type'[s] = data_store'[s].users[user'[s]].user_type
          /\ (out' # out /\ out'.s = s
                /\ out'.kind \in {"enter_both", "invalid_login", "fill_fields",
                                   "pw_mismatch", "email_exists"}) =>
                /\ user'[s] = user[s]
                /\ authenticated'[s] = authenticated[s]
                /\ user_type'[s] = user_type[s]
          /\ (authenticated[s] /\ (~authenticated'[s] \/ user'[s] = 0)) =>
                /\ user'[s] = 0 /\ ~authenticated'[s] /\ user_type'[s] = "none"]_vars

\* a session that logged in as vendor, logged out and sits at the login form
\* again after a failed login
C22_Witness ==
  \E s \in Sessions :
    /\ out = Out(s, "invalid_login", <<>>, <<>>)
    /\ ~authenticated[s] /\ user[s] = 0 /\ user_type[s] = "none"
    /\ \E t \in Sessions \ {s} : authenticated[t] /\ user_type[t] = "vendor"
    /\ Len(data_store[s].users) > 0

C24_NoCredentials ==
  /\ [](\A tw \in BOOLEAN :
          out.kind = "send_sms_notification" /\ out.order = <<FALSE, tw>> =>
            out.sms = <<[success |-> FALSE, called |-> FALSE, shown |-> "warning"]>>)
  /\ [][\A s \in Sessions, tw \in BOOLEAN :
          LET sms == send_sms_notification(FALSE, tw).success
          IN /\ PlaceOrder(s, "12 Main St", sms, "ok") =>
                  /\ out'.kind = "order_placed"
                  /\ out'.sms = <<[status |-> "confirmed", ok |-> FALSE]>>
                  /\ Len(data_store'[s].orders) = Len(data_store[s].orders) + 1
                  /\ disk' = File(data_store'[s])
                  /\ cart'[s] = <<>>
             /\ \A o \in 1..Len(data_store[s].orders), kind \in ButtonKinds :
                  VendorButton(s, o, kind, sms, "ok") =>
                    /\ out'.kind = kind
                    /\ out'.sms = <<[status |-> ButtonTo(kind), ok |-> FALSE]>>
                    /\ data_store'[s].orders[o].status = ButtonTo(kind)
                    /\ disk' = File(data_store'[s])]_vars

\* an order was placed and then accepted by the vendor with no confirmation
\* and no status SMS sent
C24_Witness ==
  /\ out.kind = "accept"
  /\ out.sms = <<[status |-> "preparing", ok |-> FALSE]>>
  /\ disk.state = "ok"
  /\ StatusOf(disk.doc, out.order[1]) = "preparing"

\* C26: every refresh of the customer tracking page that shows an order out
\* for delivery adds 0.02 to delivery_progress and clamps it at 0.95; the
\* progress handed to simulate_delivery_movement lies in [0.1, 0.95]; it never
\* decreases while the same order stays tracked; and it starts again from 0.1
\* (0.1, or 0.12 once the first refresh has shown the order) whenever a
\* different order becomes the tracked order.
C26_DeliveryProgress ==
  /\ [](\A s \in Sessions : delivery_progress[s] \in 10..95)
  /\ [][\A s \in Sessions :
          LET o == selected_order'[s]
              delivering == o # 0 /\ data_store'[s].orders[o].status = "out_for_delivery"
          IN /\ (out' = Out(s, "tracking", out'.order, <<>>) /\ delivering
                   /\ \E k \in 0..3, rnd \in BOOLEAN : TrackingRefresh(s, k, rnd)) =>
                  delivery_progress'[s] = IF delivery_progress[s] + 2 > 95 THEN 95
                                          ELSE delivery_progress[s] + 2
             /\ (o = selected_order[s] /\ o # 0) => delivery_progress'[s] >= delivery_progress[s]
             /\ (o # selected_order[s] /\ o # 0) =>
                  delivery_progress'[s] = IF delivering /\ out'.kind = "tracking" THEN 12 ELSE 10]_vars

\* C27: every order created by checkout is internally consistent: its
\* restaurant_name is the name of the restaurant that its restaurant_id
\* identifies, its restaurant_id is the restaurant of all its cart lines, and
\* its total_amount is the sum of price times quantity over those lines.
C27_OrderConsistent ==
  [][\A s \in Sessions :
        (out'.s = s /\ out'.kind = "order_placed"
           /\ Len(data_store'[s].orders) = Len(data_store[s].orders) + 1) =>
          LET doc == data_store'[s]
              order == doc.orders[Len(doc.orders)]
              r == get_restaurant_by_id(doc, order.restaurant_id)
              lines == order.item_details
          IN /\ r # 0
             /\ order.restaurant_name = doc.restaurants[r].name
             /\ \A l \in 1..Len(lines) : lines[l].restaurant_id = order.restaurant_id
             /\ order.total_amount = CartTotal(lines)]_vars

\* C28: session data does not leak between users of one client session: the
\* order shown on the customer tracking page belongs to the logged-in user,
\* the active-orders list holds only orders of the logged-in user, and a user
\* who logs in or registers after another one (the one whose orders the
\* active-orders list holds) starts with an empty cart.
C28_NoSessionLeak ==
  /\ [](\A s \in Sessions :
          check_authentication(s) =>
            /\ \A a \in 1..Len(active_orders[s]) :
                  data_store[s].orders[active_orders[s][a]].user_id = CurrentUser(s).id
            /\ (out.s = s /\ out.kind = "tracking") =>
                  \A i \in 1..Len(data_store[s].orders) :
                    data_store[s].orders[i].id = out.order[1] =>
                      data_store[s].orders[i].user_id = CurrentUser(s).id)
  /\ [][\A s \in Sessions :
          (~check_authentication(s) /\ out'.s = s /\ out'.kind \in {"welcome", "registered"}
             /\ \E a \in 1..Len(active_orders[s]) :
                  data_store[s].orders[active_orders[s][a]].user_id
                    # data_store'[s].users[user'[s]].id) =>
            cart'[s] = <<>>]_vars

\* C29: rendering the customer home page, the restaurant list, a restaurant's
\* details or the order tracking page without pressing an action button leaves
\* the Record Store, in memory and on file, as it was.
C29_ViewsReadOnly ==
  [][\A s \in Sessions :
        (out'.s = s
           /\ out'.kind \in {"customer_home", "restaurant_list", "restaurant_details", "tracking"}
           /\ \/ ShowCustomerHome(s)
              \/ ShowRestaurants(s)
              \/ \E k \in 0..MaxOrdersNarrow, rnd \in BOOLEAN : TrackingRefresh(s, k, rnd)) =>
          /\ data_store'[s] = data_store[s]
          /\ disk' = disk]_vars

\* C30: within one client session the auto-advance of the tracking page
\* changes an order status at most once: it fires only while the session has
\* not fired it before, firing marks the session for good, and what it does is
\* one step, confirmed to preparing or preparing to out_for_delivery; so it
\* alone never takes an order from confirmed to out_for_delivery and never
\* produces delivered or cancelled.
C30_AutoAdvanceOnce ==
  /\ [][\A s \in Sessions : simulate_status[s] => simulate_status'[s]]_vars
  /\ [][\A s \in Sessions : \A i \in 1..Len(data_store[s].orders) :
          (out'.s = s /\ out'.kind = "tracking"
             /\ data_store'[s].orders[i].status # data_store[s].orders[i].status) =>
            /\ ~simulate_status[s]
            /\ simulate_status'[s]
            /\ <<data_store[s].orders[i].status, data_store'[s].orders[i].status>>
                  \in {<<"confirmed", "preparing">>, <<"preparing", "out_for_delivery">>}
            /\ \A j \in 1..Len(data_store[s].orders) :
                  j # i => data_store'[s].orders[j] = data_store[s].orders[j]]_vars

\* the session's auto-advance has fired and the tracking page shows the order
\* as preparing, where the progression would apply again
C30_Witness ==
  \E s \in Sessions :
    /\ simulate_status[s]
    /\ out.s = s /\ out.kind = "tracking"
    /\ selected_order[s] # 0
    /\ data_store[s].orders[selected_order[s]].status = "preparing"

====
